---- MODULE Spec2Model ----
(***************************************************************************)
(* Model of conformal/__init__.py: class ConformalPrediction.              *)
(*                                                                         *)
(* Real numbers (non-conformity scores, thresholds) are fixed-point        *)
(* integers in hundredths: the score 1.5 is 150.  Every score the model's  *)
(* measure returns is a whole number, and the percentile ranks used are    *)
(* whole percents, so linear interpolation is exact in this representation.*)
(* A float that may be NaN is a record [nan, num].                         *)
(***************************************************************************)
EXTENDS Integers, Sequences, FiniteSets, TLC

VARIABLES
    pc,                      \* "new": no object yet; "ready": constructed; "failed": __init__ raised
    selected_threshold_mode, \* self.selected_threshold_mode
    epsilon,                 \* self.epsilon
    labels,                  \* self.labels
    thresholds,              \* self.thresholds: label -> float
    call,                    \* the call the caller is holding: its name and the arguments after it ended
    result,                  \* how that call ended: a value returned or an exception raised
    nMeasure                 \* number of measure.measure invocations that call made

vars == <<pc, selected_threshold_mode, epsilon, labels, thresholds, call, result, nMeasure>>

self == <<selected_threshold_mode, epsilon, labels, thresholds>>

(***************************************************************************)
(* Bounds of the model.                                                    *)
(***************************************************************************)
MaxLabels == 2      \* columns of a model output batch: 1..MaxLabels
MaxCal == 2         \* rows of a calibration batch: 0..MaxCal
MaxPredict == 2     \* rows of a batch handed to predict, in SpecPredict
MaxBatch == 1       \* rows / samples / sets handed to an operation, in Spec
MaxEval == 2        \* samples handed to evaluate, in SpecEvaluate
MaxHist == 3        \* prediction sets handed to label_histogram, in SpecHistogram

OutVals == {0, 1}   \* the values an entry of a model output row takes

\* One percent: percentile ranks run over 0..Hundred, and one unit of score is
\* Hundred hundredths.
Hundred == 100

None == "None"

(***************************************************************************)
(* Floats.                                                                 *)
(***************************************************************************)
F(x) == [nan |-> FALSE, num |-> x]
NaN == [nan |-> TRUE, num |-> 0]

\* a <= b on floats: every comparison with NaN is false.
Leq(a, b) == ~a.nan /\ ~b.nan /\ a.num <= b.num
Lt(a, b) == ~a.nan /\ ~b.nan /\ a.num < b.num

(***************************************************************************)
(* Inputs.                                                                 *)
(***************************************************************************)
SeqsUpTo(S, n) == UNION {[1..k -> S] : k \in 0..n}

\* The batches handed in as a numpy array; what is handed in as something
\* else (a list, say) is refused whatever it holds: the empty one stands for all.
Batches(isArray, S, n) == IF isArray THEN SeqsUpTo(S, n) ELSE {<<>>}

Rows(L) == [1..L -> OutVals]

\* The one-hot row of width L whose 1 is at (0-based) position t.
OneHot(L, t) == [j \in 1..L |-> IF j = t + 1 THEN 1 ELSE 0]

OneHots(L) == {OneHot(L, t) : t \in 0..(L - 1)}

\* A calibration batch: rows of (model output row, one-hot ground truth row).
Samples(L) == [output : Rows(L), actual : OneHots(L)]

Outputs(batch) == [i \in 1..Len(batch) |-> batch[i].output]
Actuals(batch) == [i \in 1..Len(batch) |-> batch[i].actual]

\* A prediction set: label indices in ascending order.
RECURSIVE Ascending(_)
Ascending(S) ==
    IF S = {} THEN <<>>
    ELSE LET m == CHOOSE x \in S : \A y \in S : x <= y
         IN <<m>> \o Ascending(S \ {m})

PredictionSets(L) == {Ascending(S) : S \in SUBSET (0..(L - 1))}

(***************************************************************************)
(* The measure capability: measure(output_vector, label) -> score, a pure  *)
(* function; lower scores conform better.  A margin-based measure: the     *)
(* best competing output minus the label's own output, shifted to be >= 0. *)
(***************************************************************************)
MaxOf(S) == CHOOSE x \in S : \A y \in S : y <= x
MinOf(S) == CHOOSE x \in S : \A y \in S : x <= y

Measure(output, label) ==
    LET others == {output[j] : j \in (1..Len(output)) \ {label + 1}}
        best == IF others = {} THEN 0 ELSE MaxOf(others)
    IN Hundred * (MaxOf(OutVals) + best - output[label + 1])

(***************************************************************************)
(* np.where(row == 1)[0][0]: the first position holding a 1.               *)
(***************************************************************************)
WhereOne(row) == MinOf({j \in 1..Len(row) : row[j] = 1}) - 1

(***************************************************************************)
(* np.percentile(a, q), linear interpolation between closest ranks.        *)
(***************************************************************************)
RECURSIVE Insert(_, _)
Insert(x, s) ==
    IF s = <<>> THEN <<x>>
    ELSE IF x <= Head(s) THEN <<x>> \o s
    ELSE <<Head(s)>> \o Insert(x, Tail(s))

RECURSIVE Sorted(_)
Sorted(s) == IF s = <<>> THEN <<>> ELSE Insert(Head(s), Sorted(Tail(s)))

\* a is non-empty.  Rank q percent of the way from a's least to its greatest.
Percentile(a, q) ==
    LET s == Sorted(a)
        n == Len(s)
        pos == q * (n - 1)
        lo == pos \div Hundred
        hi == IF lo + 1 <= n - 1 THEN lo + 1 ELSE n - 1
        rem == pos % Hundred
    IN F(s[lo + 1] + (rem * (s[hi + 1] - s[lo + 1])) \div Hundred)

\* np.percentile of an empty array: NaN (with a warning) on the numpy releases
\* the code was written for, IndexError on later ones.
EmptyPercentile == {"nan", "IndexError"}

(***************************************************************************)
(* The grouping loop shared by __non_conformity_thresholds and             *)
(* threshold_measure: the score of each row against its true label,        *)
(* appended to that label's list.                                          *)
(***************************************************************************)
RECURSIVE CollectAll(_, _, _, _)
CollectAll(model_output, actual, i, measure) ==
    IF i > Len(model_output) THEN measure
    ELSE CollectAll(model_output, actual, i + 1,
            [l \in DOMAIN measure |-> Append(measure[l], Measure(model_output[i], l))])

RECURSIVE Collect(_, _, _, _)
Collect(model_output, actual, i, measure) ==
    IF i > Len(model_output) THEN measure
    ELSE LET t == WhereOne(actual[i])
         IN Collect(model_output, actual, i + 1,
                [measure EXCEPT ![t] = Append(@, Measure(model_output[i], t))])

MeasureDict(model_output, actual, L) ==
    Collect(model_output, actual, 1, [l \in 0..(L - 1) |-> <<>>])

\* np.concatenate([measure[label] for label in measure.keys()])
RECURSIVE Concatenate(_, _, _)
Concatenate(measure, l, L) ==
    IF l >= L THEN <<>> ELSE measure[l] \o Concatenate(measure, l + 1, L)

(***************************************************************************)
(* __non_conformity_thresholds.                                            *)
(***************************************************************************)
PercentileOrNaN(a, q) == IF a = <<>> THEN NaN ELSE Percentile(a, q)

\* The arrays np.percentile is called on: each label's list, or the pooled one.
PercentileInputs(model_output, actual, L, mode) ==
    LET measure == MeasureDict(model_output, actual, L)
    IN IF mode = 0 THEN {measure[l] : l \in 0..(L - 1)}
       ELSE {Concatenate(measure, 0, L)}

NonConformityThresholdsPerLabelOnly(model_output, actual, L, eps, mode) ==
    LET measure == MeasureDict(model_output, actual, L)
    IN [l \in 0..(L - 1) |-> PercentileOrNaN(measure[l], Hundred - eps)]

NonConformityThresholds(model_output, actual, L, eps, mode) ==
    LET measure == MeasureDict(model_output, actual, L)
        pooled == Concatenate(measure, 0, L)
    IN IF mode = 0
       THEN [l \in 0..(L - 1) |-> PercentileOrNaN(measure[l], Hundred - eps)]
       ELSE [l \in 0..(L - 1) |-> PercentileOrNaN(pooled, Hundred - eps)]

(***************************************************************************)
(* __init__(model_output, actual, epsilon, measure, threshold_mode).       *)
(***************************************************************************)
\* A threshold_mode argument: its Python type and its value.
ModeArgs ==
    {[type |-> "int", val |-> v] : v \in {0, 1, 2}} \cup {[type |-> "float", val |-> 1]}

EpsilonArgs == {-1, 0, 5, 50, 100, 101}

\* The checks at the top of __init__, in the order the code makes them:
\* the exception raised, or None when all pass.
ValidateOneClass(isArray, eps, mode) ==
    IF ~isArray THEN "TypeError"
    ELSE IF eps < 0 \/ eps > Hundred THEN "ValueError"
    ELSE IF mode.type # "int" \/ mode.val \notin {0, 1} THEN "ValueError"
    ELSE None

Validate(isArray, eps, mode) ==
    IF ~isArray THEN "TypeError"
    ELSE IF eps < 0 \/ eps > Hundred THEN "ValueError"
    ELSE IF mode.type # "int" THEN "TypeError"
    ELSE IF mode.val \notin {0, 1} THEN "ValueError"
    ELSE None

NoCall == [op |-> None]

Raised(exc) == [raised |-> exc, value |-> None]
Returned(v) == [raised |-> None, value |-> v]

\* When np.percentile raises, lines 36-40 have run, but on an object the
\* caller never gets: no predictor exists, as when a check fails.
Construct ==
    /\ pc = "new"
    /\ call = NoCall
    /\ \E L \in 1..MaxLabels, isArray \in BOOLEAN, eps \in EpsilonArgs,
          mode \in ModeArgs, build \in EmptyPercentile :
        \E batch \in Batches(isArray, Samples(L), MaxCal) :
            LET model_output == Outputs(batch)
                actual == Actuals(batch)
                exc == Validate(isArray, eps, mode)
                raises == build = "IndexError"
                          /\ <<>> \in PercentileInputs(model_output, actual, L, mode.val)
            IN /\ call' = [op |-> "__init__", isArray |-> isArray, columns |-> L,
                           model_output |-> model_output, actual |-> actual,
                           epsilon |-> eps, threshold_mode |-> mode]
               /\ IF exc # None
                  THEN /\ pc' = "failed"
                       /\ result' = Raised(exc)
                       /\ nMeasure' = 0
                       /\ UNCHANGED self
                  ELSE IF raises
                  THEN /\ pc' = "failed"
                       /\ result' = Raised("IndexError")
                       /\ nMeasure' = Len(model_output)
                       /\ UNCHANGED self
                  ELSE /\ pc' = "ready"
                       /\ result' = Returned(None)
                       /\ nMeasure' = Len(model_output)
                       /\ selected_threshold_mode' = mode.val
                       /\ epsilon' = eps
                       /\ labels' = L
                       /\ thresholds' = NonConformityThresholds(model_output, actual, L,
                                                             eps, mode.val)

(***************************************************************************)
(* predict(model_output)                                                   *)
(***************************************************************************)
Range(n) == [i \in 1..n |-> i - 1]

PredictRowStrict(output, thr) ==
    SelectSeq(Range(Len(output)),
              LAMBDA i : Lt(F(Measure(output, i)), thr[i]))

PredictRow(output, thr) ==
    SelectSeq(Range(Len(output)),
              LAMBDA i : Leq(F(Measure(output, i)), thr[i]))

\* What predict returns for an array model_output whose rows self.thresholds covers.
PredictionOf(model_output) ==
    [r \in 1..Len(model_output) |-> PredictRow(model_output[r], thresholds)]

Predict(maxRows) ==
    /\ pc = "ready"
    /\ call = NoCall
    /\ \E isArray \in BOOLEAN, W \in 1..MaxLabels :
        \E model_output \in Batches(isArray, Rows(W), maxRows) :
            /\ call' = [op |-> "predict", isArray |-> isArray,
                        model_output |-> model_output]
            /\ IF ~isArray
               THEN result' = Raised("TypeError") /\ nMeasure' = 0
               ELSE IF model_output # <<>> /\ W > labels
               THEN \* thresholds[i] for i = labels: no such key
                    result' = Raised("KeyError") /\ nMeasure' = labels + 1
               ELSE /\ result' = Returned(PredictionOf(model_output))
                    /\ nMeasure' = Len(model_output) * W
            /\ UNCHANGED <<pc, self>>

(***************************************************************************)
(* confidence(model_output)                                                *)
(***************************************************************************)
ConfidenceRow(output) == [i \in 1..Len(output) |-> Measure(output, i - 1)]

Confidence ==
    /\ pc = "ready"
    /\ call = NoCall
    /\ \E isArray \in BOOLEAN, W \in 1..MaxLabels :
        \E model_output \in Batches(isArray, Rows(W), MaxBatch) :
            /\ call' = [op |-> "confidence", isArray |-> isArray,
                        model_output |-> model_output]
            /\ IF ~isArray
               THEN result' = Raised("TypeError") /\ nMeasure' = 0
               ELSE /\ result' = Returned([r \in 1..Len(model_output) |->
                                              ConfidenceRow(model_output[r])])
                    /\ nMeasure' = Len(model_output) * W
            /\ UNCHANGED <<pc, self>>

(***************************************************************************)
(* threshold_measure(model_output, actual)                                 *)
(***************************************************************************)
ThresholdMeasureStoring ==
    /\ pc = "ready"
    /\ call = NoCall
    /\ \E W \in 1..MaxLabels :
        \E batch \in SeqsUpTo(Samples(W), MaxBatch) :
            LET measure == MeasureDict(Outputs(batch), Actuals(batch), W)
            IN /\ call' = [op |-> "threshold_measure", columns |-> W,
                           model_output |-> Outputs(batch), actual |-> Actuals(batch)]
               /\ result' = Returned(measure)
               /\ nMeasure' = Len(batch)
               /\ thresholds' = [l \in 0..(W - 1) |->
                                    PercentileOrNaN(measure[l], Hundred - epsilon)]
               /\ UNCHANGED <<pc, selected_threshold_mode, epsilon, labels>>

ThresholdMeasure ==
    /\ pc = "ready"
    /\ call = NoCall
    /\ \E W \in 1..MaxLabels :
        \E batch \in SeqsUpTo(Samples(W), MaxBatch) :
            /\ call' = [op |-> "threshold_measure", columns |-> W,
                        model_output |-> Outputs(batch), actual |-> Actuals(batch)]
            /\ result' = Returned(MeasureDict(Outputs(batch), Actuals(batch), W))
            /\ nMeasure' = Len(batch)
            /\ UNCHANGED <<pc, self>>

(***************************************************************************)
(* evaluate(predicted_labels, actual_labels), a static method.             *)
(***************************************************************************)
RECURSIVE CountCorrectFirstOnly(_, _, _)
CountCorrectFirstOnly(predicted_labels, actual_labels, i) ==
    IF i > Len(predicted_labels) THEN 0
    ELSE (IF predicted_labels[i] # <<>>
             /\ predicted_labels[i][1] = WhereOne(actual_labels[i])
          THEN 1 ELSE 0)
         + CountCorrectFirstOnly(predicted_labels, actual_labels, i + 1)

RECURSIVE CountCorrect(_, _, _)
CountCorrect(predicted_labels, actual_labels, i) ==
    IF i > Len(predicted_labels) THEN 0
    ELSE (IF \E k \in 1..Len(predicted_labels[i]) :
                predicted_labels[i][k] = WhereOne(actual_labels[i])
          THEN 1 ELSE 0)
         + CountCorrect(predicted_labels, actual_labels, i + 1)

\* count / len(actual_labels): the quotient as a fraction.
EvaluateOutcome(predicted_labels, actual_labels) ==
    IF Len(predicted_labels) > Len(actual_labels) THEN Raised("IndexError")
    ELSE IF Len(actual_labels) = 0 THEN Raised("ZeroDivisionError")
    ELSE Returned([num |-> CountCorrect(predicted_labels, actual_labels, 1),
                   den |-> Len(actual_labels)])

Evaluate(maxSamples) ==
    /\ call = NoCall
    /\ \E W \in 1..MaxLabels :
        \E predicted_labels \in SeqsUpTo(PredictionSets(W), maxSamples),
           actual_labels \in SeqsUpTo(OneHots(W), maxSamples) :
            /\ call' = [op |-> "evaluate", predicted_labels |-> predicted_labels,
                        actual_labels |-> actual_labels]
            /\ result' = EvaluateOutcome(predicted_labels, actual_labels)
            /\ nMeasure' = 0
    /\ UNCHANGED <<pc, self>>

(***************************************************************************)
(* label_histogram(predictions)                                            *)
(***************************************************************************)
\* np.histogram(data, bins)[0] for integer data: bins of equal width over
\* [min, max] of the data, the last one closed; over [0, 1] for no data and
\* over [min - 0.5, max + 0.5] when min = max.
NpHistogram(data, bins) ==
    LET vals == {data[i] : i \in 1..Len(data)}
        mn == IF vals = {} THEN 0 ELSE MinOf(vals)
        mx == IF vals = {} THEN 1 ELSE MaxOf(vals)
        bin(v) == IF mn = mx THEN bins \div 2
                  ELSE IF v = mx THEN bins - 1
                  ELSE ((v - mn) * bins) \div (mx - mn)
    IN [b \in 1..bins |-> Cardinality({i \in 1..Len(data) : bin(data[i]) = b - 1})]

LabelsCount(predictions) == [i \in 1..Len(predictions) |-> Len(predictions[i])]

\* labels_count alone, as line 72 bins it
CountsOnly(predictions, L) == LabelsCount(predictions)

\* labels_count + [_ for _ in range(self.labels + 1)]
CountsAndRange(predictions, L) == LabelsCount(predictions) \o Range(L + 1)

Histogram(predictions, L) ==
    LET histogram == NpHistogram(CountsAndRange(predictions, L), L + 1)
    IN [y \in 1..(L + 1) |-> histogram[y] - 1]

LabelHistogram(maxSets) ==
    /\ pc = "ready"
    /\ call = NoCall
    /\ \E W \in 1..MaxLabels :
        \E predictions \in SeqsUpTo(PredictionSets(W), maxSets) :
            /\ call' = [op |-> "label_histogram", predictions |-> predictions]
            /\ result' = Returned(Histogram(predictions, labels))
            /\ nMeasure' = 0
    /\ UNCHANGED <<pc, self>>

(***************************************************************************)
(* The caller lets go of the arguments and the result of the call it made. *)
(***************************************************************************)
Release ==
    /\ call # NoCall
    /\ call' = NoCall
    /\ result' = Returned(None)
    /\ nMeasure' = 0
    /\ UNCHANGED <<pc, self>>

(***************************************************************************)
(* Specifications.                                                         *)
(***************************************************************************)
Init ==
    /\ pc = "new"
    /\ selected_threshold_mode = None
    /\ epsilon = None
    /\ labels = None
    /\ thresholds = None
    /\ call = NoCall
    /\ result = Returned(None)
    /\ nMeasure = 0

Next ==
    \/ Construct
    \/ Predict(MaxBatch)
    \/ Confidence
    \/ ThresholdMeasure
    \/ Evaluate(MaxBatch)
    \/ LabelHistogram(MaxBatch)
    \/ Release

Spec == Init /\ [][Next]_vars

\* Construction and predict alone, predict on longer batches.
NextPredict == Construct \/ Predict(MaxPredict) \/ Release

SpecPredict == Init /\ [][NextPredict]_vars

\* label_histogram alone, on longer inputs: of the predictor it reads self.labels
\* only.  The predictor is the one built with the default epsilon and
\* threshold_mode from one calibration row per label.
InitCalibrated ==
    \E L \in 1..MaxLabels :
        LET rows == [i \in 1..L |-> OneHot(L, i - 1)]
        IN /\ pc = "ready"
           /\ selected_threshold_mode = 0
           /\ epsilon = 5
           /\ labels = L
           /\ thresholds = NonConformityThresholds(rows, rows, L, 5, 0)
           /\ call = NoCall
           /\ result = Returned(None)
           /\ nMeasure = 0

NextHistogram == LabelHistogram(MaxHist) \/ Release

SpecHistogram == InitCalibrated /\ [][NextHistogram]_vars

\* evaluate alone, on longer inputs: it is static and reads no predictor state.
NextEvaluate == Evaluate(MaxEval) \/ Release

SpecEvaluate == Init /\ [][NextEvaluate]_vars

(***************************************************************************)
(* Properties.                                                             *)
(***************************************************************************)
Elems(seq) == {seq[k] : k \in 1..Len(seq)}

ValidEpsilons == {e \in EpsilonArgs : 0 <= e /\ e <= Hundred}

\* The scores of the calibration rows whose true label is l, each against l.
OwnScores(model_output, actual, l) ==
    LET keep == SelectSeq([i \in 1..Len(model_output) |-> i],
                          LAMBDA i : WhereOne(actual[i]) = l)
    IN [k \in 1..Len(keep) |-> Measure(model_output[keep[k]], l)]

\* The true-label scores of all calibration rows.
PooledScores(model_output, actual) ==
    [i \in 1..Len(model_output) |-> Measure(model_output[i], WhereOne(actual[i]))]

\* C1: predict returns one prediction set per input row, in row order; the
\* set of a row holds label l exactly when measure(row, l) <= thresholds[l]
\* (a score equal to the threshold is in), in strictly ascending order; and a
\* batch whose rows have self.labels columns does get its sets.
C1_PredictSets ==
    call.op = "predict" /\ call.isArray =>
        /\ (\A r \in 1..Len(call.model_output) : Len(call.model_output[r]) = labels)
               => result.raised = None
        /\ result.raised = None =>
            /\ Len(result.value) = Len(call.model_output)
            /\ \A r \in 1..Len(call.model_output) :
                LET row == call.model_output[r]
                    set == result.value[r]
                IN /\ \A l \in 0..(Len(row) - 1) :
                        l \in Elems(set) <=>
                            /\ ~thresholds[l].nan
                            /\ Measure(row, l) <= thresholds[l].num
                   /\ Elems(set) \subseteq 0..(Len(row) - 1)
                   /\ \A k \in 1..(Len(set) - 1) : set[k] < set[k + 1]

\* C1 witness: a batch of two rows of self.labels columns with different
\* prediction sets, the first row with one label scoring exactly its
\* threshold, and in the set, and another label above its threshold, left out.
C1_Witness ==
    /\ call.op = "predict" /\ call.isArray /\ result.raised = None
    /\ Len(call.model_output) = 2
    /\ result.value[1] # result.value[2]
    /\ LET row == call.model_output[1]
       IN /\ Len(row) = labels
          /\ \E l, m \in 0..(labels - 1) :
                /\ ~thresholds[l].nan /\ Measure(row, l) = thresholds[l].num
                /\ l \in Elems(result.value[1])
                /\ ~thresholds[m].nan /\ Measure(row, m) > thresholds[m].num
                /\ m \notin Elems(result.value[1])

\* C2: in per-label mode the threshold of label l is the (100 - epsilon)-th
\* percentile of the scores of exactly the calibration rows whose true label
\* is l, each scored against l; it is the greatest of them when epsilon = 0
\* and the least of them when epsilon = 100.
C2_PerLabelThresholds ==
    call.op = "__init__" /\ pc = "ready" /\ selected_threshold_mode = 0 =>
        \A l \in 0..(labels - 1) :
            LET own == OwnScores(call.model_output, call.actual, l)
            IN /\ thresholds[l] = PercentileOrNaN(own, Hundred - epsilon)
               /\ own = <<>> => thresholds[l].nan
               /\ own # <<>> =>
                    /\ ~thresholds[l].nan
                    /\ MinOf(Elems(own)) <= thresholds[l].num
                    /\ thresholds[l].num <= MaxOf(Elems(own))
                    /\ epsilon = 0 => thresholds[l].num = MaxOf(Elems(own))
                    /\ epsilon = Hundred => thresholds[l].num = MinOf(Elems(own))

\* C2 witness: a per-label predictor with a label l whose two calibration rows
\* score differently, its threshold strictly between the two, and one of the
\* rows scoring against another label a value that is none of l's scores.
C2_Witness ==
    /\ call.op = "__init__" /\ pc = "ready" /\ selected_threshold_mode = 0
    /\ \E l, m \in 0..(labels - 1) :
        LET own == Elems(OwnScores(call.model_output, call.actual, l))
        IN /\ l # m
           /\ own # {}
           /\ MinOf(own) < thresholds[l].num
           /\ thresholds[l].num < MaxOf(own)
           /\ \E i \in 1..Len(call.model_output) :
                Measure(call.model_output[i], m) \notin own

\* C2 witness of the other half: two labels with calibration rows, the row of
\* one scoring against the other label a value that is not its threshold.
C2_WitnessOtherLabel ==
    /\ call.op = "__init__" /\ pc = "ready" /\ selected_threshold_mode = 0
    /\ \E l, m \in 0..(labels - 1) :
        /\ l # m
        /\ OwnScores(call.model_output, call.actual, l) # <<>>
        /\ \E i \in 1..Len(call.model_output) :
            /\ WhereOne(call.actual[i]) = m
            /\ Measure(call.model_output[i], l) # thresholds[l].num

\* C3: in global mode every label has the same threshold, the
\* (100 - epsilon)-th percentile of the pooled true-label scores of all
\* calibration rows.
C3_GlobalThreshold ==
    call.op = "__init__" /\ pc = "ready" /\ selected_threshold_mode = 1 =>
        LET pooled == PooledScores(call.model_output, call.actual)
        IN /\ \A l \in 0..(labels - 1) :
                thresholds[l] = PercentileOrNaN(pooled, Hundred - epsilon)
           /\ \A l, m \in 0..(labels - 1) : thresholds[l] = thresholds[m]
           /\ DOMAIN thresholds = 0..(labels - 1)

\* C3 witness: a global predictor with more than one label whose labels' own
\* percentiles differ from each other.
C3_Witness ==
    /\ call.op = "__init__" /\ pc = "ready" /\ selected_threshold_mode = 1
    /\ labels > 1
    /\ \E l, m \in 0..(labels - 1) :
        LET a == OwnScores(call.model_output, call.actual, l)
            b == OwnScores(call.model_output, call.actual, m)
        IN /\ a # <<>> /\ b # <<>>
           /\ Percentile(a, Hundred - epsilon) # Percentile(b, Hundred - epsilon)
           /\ ~thresholds[l].nan

\* The arguments of a call of __init__ with a numpy model_output whose epsilon
\* or threshold_mode is not an allowed value.
BadParameters ==
    /\ call.op = "__init__"
    /\ call.isArray
    /\ \/ call.epsilon \notin ValidEpsilons
       \/ call.threshold_mode.type # "int"
       \/ call.threshold_mode.val \notin {0, 1}

\* The error classes of the specification: a non-array input is an
\* InvalidInputType (the code: TypeError), an epsilon out of range an
\* InvalidParameter (the code: ValueError).
ErrorClass(exc) ==
    IF exc = "TypeError" THEN "InvalidInputType"
    ELSE IF exc = "ValueError" THEN "InvalidParameter"
    ELSE exc

\* C4, as claimed: a construction with epsilon outside [0, 100] or a
\* threshold_mode not in {0, 1}, of whatever type, fails with the one class
\* InvalidParameter, before any call of the measure, and leaves no predictor.
C4_OneErrorClass ==
    BadParameters =>
        /\ ErrorClass(result.raised) = "InvalidParameter"
        /\ nMeasure = 0
        /\ pc = "failed"
        /\ self = <<None, None, None, None>>

\* C4, amended: such a construction fails before any call of the measure and
\* leaves no predictor; it raises ValueError for an epsilon outside [0, 100],
\* and with epsilon in range TypeError for a threshold_mode that is not an
\* int and ValueError for an int that is neither 0 nor 1.
C4_TwoErrorClasses ==
    BadParameters =>
        /\ nMeasure = 0
        /\ result.raised =
              (IF call.epsilon \notin ValidEpsilons THEN "ValueError"
               ELSE IF call.threshold_mode.type # "int" THEN "TypeError"
               ELSE "ValueError")
        /\ pc = "failed"
        /\ self = <<None, None, None, None>>

\* C4 witness: a construction refused for a threshold_mode of the wrong type,
\* on a calibration batch that has rows to score.
C4_Witness ==
    /\ BadParameters
    /\ call.epsilon \in ValidEpsilons
    /\ call.threshold_mode.type # "int"
    /\ call.model_output # <<>>
    /\ pc = "failed"
    /\ result.raised = "TypeError"

\* Some label of a per-label calibration has no calibration row.
EmptyLabel ==
    /\ call.op = "__init__"
    /\ Validate(call.isArray, call.epsilon, call.threshold_mode) = None
    /\ call.threshold_mode.val = 0
    /\ \E l \in 0..(call.columns - 1) :
        OwnScores(call.model_output, call.actual, l) = <<>>

\* C5, as claimed: when a label has no calibration row, construction fails
\* with UndefinedStatistic, and no predictor ever holds a NaN threshold.
C5_EmptyLabelFailsLoudly ==
    /\ EmptyLabel => pc = "failed" /\ result.raised = "UndefinedStatistic"
    /\ pc = "ready" => \A l \in DOMAIN thresholds : ~thresholds[l].nan

\* What the code does there: a predictor with a NaN threshold, or IndexError.
C5_WhatTheCodeDoes ==
    EmptyLabel =>
        \/ pc = "ready" /\ \E l \in DOMAIN thresholds : thresholds[l].nan
        \/ pc = "failed" /\ result.raised = "IndexError"

\* C6, as claimed: evaluate on zero samples ends in UndefinedStatistic.
C6_ZeroSamplesGuarded ==
    /\ call.op = "evaluate"
    /\ call.predicted_labels = <<>>
    /\ call.actual_labels = <<>>
    => result.raised = "UndefinedStatistic"

\* What the code does there: the division by len(actual_labels) = 0 raises.
C6_WhatTheCodeDoes ==
    /\ call.op = "evaluate"
    /\ call.predicted_labels = <<>>
    /\ call.actual_labels = <<>>
    => result.raised = "ZeroDivisionError"

\* C7: on n >= 1 prediction sets and n one-hot rows evaluate returns the
\* number of samples whose true label is in their set, divided by n: 1 when
\* every set holds its true label, 0 when none does, always within [0, 1].
C7_EvaluateFraction ==
    /\ call.op = "evaluate"
    /\ Len(call.predicted_labels) = Len(call.actual_labels)
    /\ Len(call.actual_labels) >= 1
    => LET n == Len(call.actual_labels)
           hit(i) == WhereOne(call.actual_labels[i]) \in Elems(call.predicted_labels[i])
           hits == {i \in 1..n : hit(i)}
       IN /\ result.raised = None
          /\ result.value.den = n
          /\ result.value.num = Cardinality(hits)
          /\ hits = 1..n => result.value.num = result.value.den
          /\ hits = {} => result.value.num = 0
          /\ 0 <= result.value.num /\ result.value.num <= result.value.den

\* C7 witness: two samples, one whose true label is in its set but not first
\* in it, one whose true label is not in its set: evaluate returns 1/2.
C7_Witness ==
    /\ call.op = "evaluate"
    /\ Len(call.predicted_labels) = 2 /\ Len(call.actual_labels) = 2
    /\ \E i, j \in 1..2 :
        /\ WhereOne(call.actual_labels[i]) \in Elems(call.predicted_labels[i])
        /\ call.predicted_labels[i][1] # WhereOne(call.actual_labels[i])
        /\ WhereOne(call.actual_labels[j]) \notin Elems(call.predicted_labels[j])
    /\ result.raised = None
    /\ result.value = [num |-> 1, den |-> 2]

RECURSIVE Sum(_)
Sum(seq) == IF seq = <<>> THEN 0 ELSE Head(seq) + Sum(Tail(seq))

\* C8: for prediction sets of sizes within 0..L label_histogram returns L + 1
\* counts, none negative, entry i the number of sets of size exactly i, the
\* counts adding up to the number of sets.
C8_ExactTallies ==
    /\ call.op = "label_histogram"
    /\ \A k \in 1..Len(call.predictions) : Len(call.predictions[k]) <= labels
    => /\ result.raised = None
       /\ Len(result.value) = labels + 1
       /\ \A i \in 0..labels :
            /\ result.value[i + 1] =
                  Cardinality({k \in 1..Len(call.predictions) :
                                  Len(call.predictions[k]) = i})
            /\ result.value[i + 1] >= 0
       /\ Sum(result.value) = Len(call.predictions)

\* C8 witness: sets of two or more different sizes, none of size 0 and none
\* of size L, with two sets of the same size.
C8_Witness ==
    /\ call.op = "label_histogram"
    /\ labels >= 2
    /\ \A k \in 1..Len(call.predictions) :
        0 < Len(call.predictions[k]) /\ Len(call.predictions[k]) < labels
    /\ \E j, k \in 1..Len(call.predictions) :
        j # k /\ Len(call.predictions[j]) = Len(call.predictions[k])
    /\ result.raised = None
    /\ \E i \in 1..Len(result.value) : result.value[i] = 2

Included(row, l, thr) == l \in Elems(PredictRow(row, thr))

\* C10, as claimed: a label in a row's set at one threshold is in it at every
\* greater one; and of two per-label predictors calibrated on the same batch
\* with epsilons e1 <= e2, every label's threshold at e1 is >= its threshold
\* at e2 and every row's set at e2 is part of its set at e1.
C10_Monotone ==
    call.op = "__init__" /\ pc = "ready" /\ selected_threshold_mode = 0 =>
        \A e2 \in {e \in ValidEpsilons : epsilon <= e} :
            LET at2 == NonConformityThresholds(call.model_output, call.actual,
                                               labels, e2, 0)
            IN /\ \A l \in 0..(labels - 1) : Leq(at2[l], thresholds[l])
               /\ \A row \in Rows(labels) : \A l \in 0..(labels - 1) :
                    Included(row, l, at2) => Included(row, l, thresholds)

\* What the code does: the same holds of every label that has a calibration
\* row; the threshold of a label that has none is NaN at both epsilons, which
\* is >= nothing, and the label is in no set at either.
C10_WhatTheCodeDoes ==
    call.op = "__init__" /\ pc = "ready" /\ selected_threshold_mode = 0 =>
        \A e2 \in {e \in ValidEpsilons : epsilon <= e} :
            LET at2 == NonConformityThresholds(call.model_output, call.actual,
                                               labels, e2, 0)
            IN /\ \A l \in 0..(labels - 1) :
                    IF OwnScores(call.model_output, call.actual, l) = <<>>
                    THEN at2[l].nan /\ thresholds[l].nan
                    ELSE Leq(at2[l], thresholds[l])
               /\ \A row \in Rows(labels) : \A l \in 0..(labels - 1) :
                    Included(row, l, at2) => Included(row, l, thresholds)

====
